---------------------------- MODULE Spec2Model ----------------------------
(***************************************************************************)
(* A model of ULZ (src/src/ulz.hpp): the varint codec EncodeMod/DecodeMod, *)
(* the two encoders CompressFast and Compress with the instance's          *)
(* HashTable and Prev tables, and the decoder Decompress.                  *)
(*                                                                         *)
(* Memory is modelled as byte sequences; a C offset i is element i+1.      *)
(* A buffer holds its logical bytes followed by the EXCESS guard bytes the *)
(* block copy may touch.  Multi-byte loads are little-endian.              *)
(***************************************************************************)
EXTENDS Integers, Sequences, FiniteSets, TLC

VARIABLES
    HashTable,  \* ULZ::HashTable: bucket h is element h+1; a position or NIL
    Prev,       \* ULZ::Prev: slot k is element k+1; the previous position
    pc,         \* which call has last returned
    inbuf,      \* the caller's input memory: logical bytes, then guard bytes
    inlen,      \* the in_len argument of the last encode call
    lvl,        \* its level argument (0 stands for CompressFast)
    build,      \* how the build orders the two sides of HashTable[..]=p++
    outbuf,     \* the caller's output memory after the last call
    ret,        \* the value the last call returned
    matches,    \* the back-references the last encode emitted (history)
    dec,        \* what the last Decompress did (result and history)
    calls,      \* number of encode calls made on this instance
    vx,         \* the argument of EncodeMod
    vdec        \* the result of DecodeMod: value and cursor

vars == <<HashTable, Prev, pc, inbuf, inlen, lvl, build, outbuf, ret,
          matches, dec, calls, vx, vdec>>

-----------------------------------------------------------------------------
(* Program constants *)

EXCESS == 16

\* The source hard-codes 17 and 19.  The tables are scaled down so that an
\* input of a few dozen bytes leaves the window and buckets collide; the
\* code is otherwise parametric in both.
WINDOW_BITS == 4

HASH_BITS == 3

WINDOW_SIZE == 2 ^ WINDOW_BITS

WINDOW_MASK == WINDOW_SIZE - 1

HASH_SIZE == 2 ^ HASH_BITS

MIN_MATCH == 4

NIL == -1

\* The error value every operation returns.
ERR == -1

\* The payload bits of one varint byte.  The source hard-codes 7 (the
\* continuation bit is 128, the shifts are 0, 7, 14, 21), so that four bytes
\* hold values up to 270549119 while a length is an int of up to 2^31-1.
\* The width is scaled down with the inputs: four bytes hold values up to
\* 29, and inputs of a few dozen bytes have lengths beyond that.
VARINT_BITS == 1

\* The continuation bit, 128 in the source.
VARINT_BASE == 2 ^ VARINT_BITS

\* The shift of the fourth and last byte DecodeMod reads, 21 in the source.
VARINT_LAST_SHIFT == 3 * VARINT_BITS

\* The width of the distance field of a token: bit 4 of the token byte and a
\* 16-bit word, 17 bits, which is the source's own WINDOW_BITS.
DIST_FIELD_BITS == 17

-----------------------------------------------------------------------------
(* Utils *)

Min(a, b) == IF a < b THEN a ELSE b

Max(a, b) == IF a > b THEN a ELSE b

\* n elements v, as a sequence.
Filled(n, v) == <<>> \o [k \in 1..n |-> v]

\* *(p+i) read from a buffer.  Offsets outside the modelled memory read 0.
Load8(m, i) == IF i >= 0 /\ i < Len(m) THEN m[i + 1] ELSE 0

\* *(p+i) = v.
Store8(m, i, v) == IF i >= 0 /\ i < Len(m) THEN [m EXCEPT ![i + 1] = v] ELSE m

UnalignedLoad16(m, i) == Load8(m, i) + 256 * Load8(m, i + 1)

\* The 32-bit word as its four bytes: TLC's integers stop short of 2^32.
UnalignedLoad32(m, i) ==
    <<Load8(m, i), Load8(m, i + 1), Load8(m, i + 2), Load8(m, i + 3)>>

UnalignedStore16(m, i, x) ==
    Store8(Store8(m, i, x % 256), i + 1, (x \div 256) % 256)

\* One 64-bit load from (sm, s) followed by one 64-bit store to (dm, d).
UnalignedCopy64(dm, d, sm, s) ==
    IF d >= 0 /\ d + 8 <= Len(dm) /\ s >= 0 /\ s + 8 <= Len(sm)
    THEN SubSeq(dm, 1, d) \o SubSeq(sm, s + 1, s + 8) \o SubSeq(dm, d + 9, Len(dm))
    ELSE <<>> \o [k \in 1..Len(dm) |->
                    IF k - 1 >= d /\ k - 1 < d + 8 THEN Load8(sm, s + (k - 1 - d))
                    ELSE dm[k]]

RECURSIVE WildCopyFrom(_, _, _, _, _, _)
WildCopyFrom(dm, d, sm, s, n, i) ==
    IF i < n
    THEN WildCopyFrom(UnalignedCopy64(dm, d + i, sm, s + i), d, sm, s, n, i + 8)
    ELSE dm

\* WildCopy between two buffers: the first block unconditionally, then
\* blocks of 8 while i < n.
WildCopy(dm, d, sm, s, n) ==
    WildCopyFrom(UnalignedCopy64(dm, d, sm, s), d, sm, s, n, 8)

RECURSIVE WildCopySelfFrom(_, _, _, _, _)
WildCopySelfFrom(m, d, s, n, i) ==
    IF i < n
    THEN WildCopySelfFrom(UnalignedCopy64(m, d + i, m, s + i), d, s, n, i + 8)
    ELSE m

\* WildCopy whose source lies in the destination buffer (the decoder's
\* match copy): every block reads what the earlier blocks wrote.
WildCopySelf(m, d, s, n) ==
    WildCopySelfFrom(UnalignedCopy64(m, d, m, s), d, s, n, 8)

\* The top 24 bits of (load32 * 0x9E3779B9) mod 2^32, by schoolbook
\* multiplication on bytes (0x9E3779B9 is B9 79 37 9E little-endian).
MulTop24(w) ==
    LET t0 == w[1] * 185
        t1 == w[1] * 121 + w[2] * 185 + (t0 \div 256)
        t2 == w[1] * 55 + w[2] * 121 + w[3] * 185 + (t1 \div 256)
        t3 == w[1] * 158 + w[2] * 55 + w[3] * 121 + w[4] * 185 + (t2 \div 256)
    IN  (t3 % 256) * 65536 + (t2 % 256) * 256 + (t1 % 256)

Hash32(m, i) == MulTop24(UnalignedLoad32(m, i)) \div (2 ^ (24 - HASH_BITS))

-----------------------------------------------------------------------------
(* The varint codec *)

\* What EncodeMod's loop writes next for x, and what it leaves of x:
\* x-=128; *p++=128+(x&127); x>>=7;
EncodeModByte(x) == VARINT_BASE + ((x - VARINT_BASE) % VARINT_BASE)

EncodeModRest(x) == (x - VARINT_BASE) \div VARINT_BASE

RECURSIVE EncodeMod(_, _, _)
\* EncodeMod(p, x) on memory m with cursor p: the memory and cursor after.
EncodeMod(m, p, x) ==
    IF x >= VARINT_BASE
    THEN EncodeMod(Store8(m, p, EncodeModByte(x)), p + 1, EncodeModRest(x))
    ELSE [mem |-> Store8(m, p, x), p |-> p + 1]

\* A term that drops the continuation bit: x+=(c&127)<<i;
DecodeModTermPayload(c, i) == (c % VARINT_BASE) * (2 ^ i)

\* What one consumed byte c adds to DecodeMod's x at shift i: x+=c<<i;
DecodeModTerm(c, i) == c * (2 ^ i)

RECURSIVE DecodeModFrom(_, _, _, _)
\* The loop for (i=0; i<=21; i+=7): at most four bytes, no bounds check.
DecodeModFrom(m, p, i, x) ==
    IF Load8(m, p) < VARINT_BASE \/ i + VARINT_BITS > VARINT_LAST_SHIFT
    THEN [x |-> x + DecodeModTerm(Load8(m, p), i), p |-> p + 1]
    ELSE DecodeModFrom(m, p + 1, i + VARINT_BITS,
                       x + DecodeModTerm(Load8(m, p), i))

\* DecodeMod(p) on memory m with cursor p: the value and the cursor after.
DecodeMod(m, p) == DecodeModFrom(m, p, 0, 0)

-----------------------------------------------------------------------------
(* The token writer shared by both encoders *)

\* The caller's output memory before a call: cap bytes of whatever was there.
Memory(cap, fill) == Filled(cap, fill)

\* A write cursor w is the output memory w.mem and the offset w.p of op.

\* token=((dist>>12)&16)+Min(len, 15)
Token(len, dist) == ((dist \div 65536) % 2) * 16 + Min(len, 15)

\* if (run>=7) { *op++=(7<<5)+token; EncodeMod(op, run-7); }
\* else *op++=(run<<5)+token;
RunHeader(w, run, token) ==
    IF run >= 7
    THEN EncodeMod(Store8(w.mem, w.p, (7 * 32 + token) % 256), w.p + 1, run - 7)
    ELSE [mem |-> Store8(w.mem, w.p, (run * 32 + token) % 256), p |-> w.p + 1]

\* WildCopy(op, &in[anchor], run); op+=run;
RunBytes(w, in, anchor, run) ==
    [mem |-> WildCopy(w.mem, w.p, in, anchor, run), p |-> w.p + run]

\* The literal-run header and the literal bytes.
EmitRun(w, in, anchor, run, token) ==
    RunBytes(RunHeader(w, run, token), in, anchor, run)

\* if (anchor!=p) { ... } else *op++=token;
MatchToken(w, in, anchor, p, token) ==
    IF anchor # p THEN EmitRun(w, in, anchor, p - anchor, token)
    ELSE [mem |-> Store8(w.mem, w.p, token), p |-> w.p + 1]

\* if (len>=15) EncodeMod(op, len-15);
MatchExtension(w, len) ==
    IF len >= 15 THEN EncodeMod(w.mem, w.p, len - 15) ELSE w

\* UnalignedStore16(op, dist); op+=2;
MatchDistance(w, dist) ==
    [mem |-> UnalignedStore16(w.mem, w.p, dist), p |-> w.p + 2]

\* if (best_len>=MIN_MATCH) { ... op+=2; : one token with its back-reference.
EmitMatch(w, in, anchor, p, best_len, dist) ==
    MatchDistance(
        MatchExtension(
            MatchToken(w, in, anchor, p, Token(best_len - MIN_MATCH, dist)),
            best_len - MIN_MATCH),
        dist)

\* if (anchor!=p) { ... } after the loop: the final literal-only token.
EmitLast(w, in, anchor, p) ==
    IF anchor # p THEN EmitRun(w, in, anchor, p - anchor, 0) ELSE w

RECURSIVE MatchLenUpTo(_, _, _, _, _, _)
\* while (len<max_match && in[s+len]==in[p+len]) ++len; for at most k
\* iterations, split in halves to keep the evaluation shallow.
MatchLenUpTo(in, s, p, len, max_match, k) ==
    IF k = 0 \/ ~(len < max_match /\ Load8(in, s + len) = Load8(in, p + len))
    THEN len
    ELSE IF k = 1 THEN len + 1
    ELSE MatchLenUpTo(in, s, p,
            MatchLenUpTo(in, s, p, len, max_match, k \div 2),
            max_match, k - (k \div 2))

\* The match extension loop from len; it ends within max_match-len steps.
MatchLen(in, s, p, len, max_match) ==
    MatchLenUpTo(in, s, p, len, max_match, Max(max_match - len, 0))

\* A limit that admits one position more than the window.
LimitOffByOne(p) == Max(p - WINDOW_SIZE - 1, NIL)

\* limit=Max(p-WINDOW_SIZE, NIL)
Limit(p) == Max(p - WINDOW_SIZE, NIL)

\* p&WINDOW_MASK, for p >= 0.
Slot(p) == p % (WINDOW_MASK + 1)

\* A table left as the previous call left it.
KeepHashTable(HT) == HT

\* for (i=0; i<HASH_SIZE; ++i) HashTable[i]=NIL;
ResetHashTable(HT) == Filled(HASH_SIZE, NIL)

\* The state of an encoder's main loop: p, anchor, the write cursor w, the
\* two tables, the locals best_len and dist of the current iteration, and
\* the history ms of back-references emitted.
Start(out, HT, PV) ==
    [p |-> 0, anchor |-> 0, w |-> [mem |-> out, p |-> 0], HT |-> HT, PV |-> PV,
     best_len |-> 0, dist |-> 0, ms |-> <<>>]

\* int best_len=0; int dist=0;
NoMatch(e) == [e EXCEPT !.best_len = 0, !.dist = 0]

\* if (best_len==MIN_MATCH && (p-anchor)>=(7+128)) best_len=0;
DropShort(e) ==
    IF e.best_len = MIN_MATCH /\ (e.p - e.anchor) >= (7 + 128)
    THEN [e EXCEPT !.best_len = 0]
    ELSE e

\* The token of the match found at e.p, written and recorded.
Emitted(in, e) ==
    [e EXCEPT !.w = EmitMatch(e.w, in, e.anchor, e.p, e.best_len, e.dist),
              !.ms = Append(e.ms, [pos |-> e.p, dist |-> e.dist,
                                   len |-> e.best_len])]

\* p and anchor after a match of best_len bytes at p.
SkipMatch(e) ==
    [e EXCEPT !.p = e.p + e.best_len, !.anchor = e.p + e.best_len]

\* The final token and return op-out;
Finish(in, e) ==
    [w |-> EmitLast(e.w, in, e.anchor, e.p), HT |-> e.HT, PV |-> e.PV,
     ms |-> e.ms]

-----------------------------------------------------------------------------
(* CompressFast *)

\* HashTable[Hash32(&in[p])]=p++; where p is read on the left and modified
\* on the right of one assignment.  A build that evaluates the left side
\* first stores p under the hash of position p; one that evaluates the right
\* side first (the order C++17 fixes) stores p under the hash of p+1.
InsertPostInc(in, HT, p, order) ==
    IF order = "lhs_first"
    THEN [HT EXCEPT ![Hash32(in, p) + 1] = p]
    ELSE [HT EXCEPT ![Hash32(in, p + 1) + 1] = p]

\* ++p; and the three HashTable[Hash32(&in[p])]=p++; after a match at p.
InsertSkipped(in, e, order) ==
    [e EXCEPT !.HT =
        InsertPostInc(in,
            InsertPostInc(in, InsertPostInc(in, e.HT, e.p + 1, order),
                          e.p + 2, order),
            e.p + 3, order)]

\* if (s>limit && UnalignedLoad32(&in[s])==UnalignedLoad32(&in[p])) { ... }
ProbeCandidate(in, in_len, e, s) ==
    IF s > Limit(e.p) /\ UnalignedLoad32(in, s) = UnalignedLoad32(in, e.p)
    THEN [e EXCEPT !.best_len = MatchLen(in, s, e.p, MIN_MATCH, in_len - e.p),
                   !.dist = e.p - s]
    ELSE e

\* int s=HashTable[h]; HashTable[h]=p; and the test of s.
ProbeBucket(in, in_len, e, h) ==
    ProbeCandidate(in, in_len, [NoMatch(e) EXCEPT !.HT[h + 1] = e.p],
                   e.HT[h + 1])

\* The single probe at p, lines 122-140.
ProbeFast(in, in_len, e) ==
    IF in_len - e.p >= MIN_MATCH
    THEN ProbeBucket(in, in_len, e, Hash32(in, e.p))
    ELSE NoMatch(e)

\* if (best_len>=MIN_MATCH) { ... p=anchor; } else ++p;
TakeFast(in, order, e) ==
    IF e.best_len >= MIN_MATCH
    THEN SkipMatch(InsertSkipped(in, Emitted(in, e), order))
    ELSE [e EXCEPT !.p = e.p + 1]

\* One iteration of while (p<in_len) { ... }.
FastBody(in, in_len, order, e) ==
    TakeFast(in, order, DropShort(ProbeFast(in, in_len, e)))

RECURSIVE FastLoop(_, _, _, _, _)
\* while (p<in_len) FastBody, for at most k iterations.  Every iteration
\* advances p, so k = in_len runs the loop to its end; the iterations are
\* split in halves to keep the evaluation shallow.
FastLoop(in, in_len, order, e, k) ==
    IF k = 0 \/ e.p >= in_len THEN e
    ELSE IF k = 1 THEN FastBody(in, in_len, order, e)
    ELSE FastLoop(in, in_len, order,
                  FastLoop(in, in_len, order, e, k \div 2), k - (k \div 2))

\* int CompressFast(U8* in, int in_len, U8* out) on an instance whose
\* tables hold HT and PV: the final write cursor (w.p is the value
\* returned), the tables and the history.
CompressFast(in, in_len, out, HT, PV, order) ==
    Finish(in, FastLoop(in, in_len, order,
                        Start(out, ResetHashTable(HT), PV), in_len))

-----------------------------------------------------------------------------
(* Compress *)

\* max_chain=(level<9)?1<<level:1<<13
MaxChain(level) == IF level < 9 THEN 2 ^ level ELSE 2 ^ 13

\* The length of the candidate s against position p, 0 when the two quick
\* tests reject it:
\* if (in[s+best_len]==in[p+best_len] && load32(s)==load32(p)) { ... ++len; }
CandidateLen(in, s, p, best_len, max_match) ==
    IF /\ Load8(in, s + best_len) = Load8(in, p + best_len)
       /\ UnalignedLoad32(in, s) = UnalignedLoad32(in, p)
    THEN MatchLen(in, s, p, MIN_MATCH, max_match)
    ELSE 0

RECURSIVE ChainSearch(_, _, _, _, _, _, _, _)

\* if (--chain_len==0) break; s=Prev[s&WINDOW_MASK];
ChainStep(in, p, max_match, PV, s, chain_len, best_len, dist) ==
    IF chain_len - 1 = 0 THEN [best_len |-> best_len, dist |-> dist]
    ELSE ChainSearch(in, p, max_match, PV, PV[Slot(s) + 1],
                     chain_len - 1, best_len, dist)

\* if (len>best_len) { best_len=len; dist=p-s; if (len==max_match) break; }
ChainCandidate(in, p, max_match, PV, s, chain_len, best_len, dist, len) ==
    IF len > best_len
    THEN IF len = max_match THEN [best_len |-> len, dist |-> p - s]
         ELSE ChainStep(in, p, max_match, PV, s, chain_len, len, p - s)
    ELSE ChainStep(in, p, max_match, PV, s, chain_len, best_len, dist)

\* while (s>limit) { ... } of the search at p: [best_len, dist].
ChainSearch(in, p, max_match, PV, s, chain_len, best_len, dist) ==
    IF s > Limit(p)
    THEN ChainCandidate(in, p, max_match, PV, s, chain_len, best_len, dist,
                        CandidateLen(in, s, p, best_len, max_match))
    ELSE [best_len |-> best_len, dist |-> dist]

\* best_len and dist of the loop state set from a search result.
Found(e, m) == [e EXCEPT !.best_len = m.best_len, !.dist = m.dist]

\* The search of lines 220-251 at e.p.
BestMatch(in, in_len, e, max_chain) ==
    IF in_len - e.p >= MIN_MATCH
    THEN Found(e, ChainSearch(in, e.p, in_len - e.p, e.PV,
                              e.HT[Hash32(in, e.p) + 1], max_chain, 0, 0))
    ELSE NoMatch(e)

RECURSIVE LazyProbe(_, _, _, _, _, _)
\* The chain walk at x=p+1: TRUE when a candidate reaches target_len, the
\* case in which the code sets best_len=0.
LazyProbe(in, x, PV, s, chain_len, best_len) ==
    IF s > Limit(x)
    THEN IF CandidateLen(in, s, x, best_len, best_len + 1) = best_len + 1
         THEN TRUE
         ELSE IF chain_len - 1 = 0 THEN FALSE
         ELSE LazyProbe(in, x, PV, PV[Slot(s) + 1], chain_len - 1,
                        best_len)
    ELSE FALSE

\* Lines 256-287: best_len after lazy matching.
Lazy(in, in_len, level, e) ==
    IF /\ level >= 5
       /\ e.best_len >= MIN_MATCH
       /\ e.best_len < in_len - e.p
       /\ (e.p - e.anchor) # 6
       /\ LazyProbe(in, e.p + 1, e.PV, e.HT[Hash32(in, e.p + 1) + 1],
                    MaxChain(level), e.best_len)
    THEN [e EXCEPT !.best_len = 0]
    ELSE e

\* h=Hash32(&in[p]); Prev[p&WINDOW_MASK]=HashTable[h]; HashTable[h]=p;
\* for the bucket h of position p.
InsertAt(e, p, h) ==
    [e EXCEPT !.HT[h + 1] = p, !.PV[Slot(p) + 1] = e.HT[h + 1]]

InsertOne(in, e, p) == InsertAt(e, p, Hash32(in, p))

RECURSIVE InsertRange(_, _, _, _)
\* InsertOne at p, p+1, ..., p+n-1 in this order (split in halves; the
\* test on e has the first half evaluated before the second starts).
InsertRange(in, e, p, n) ==
    IF n = 0 \/ Len(e.HT) = 0 THEN e
    ELSE IF n = 1 THEN InsertOne(in, e, p)
    ELSE InsertRange(in, InsertRange(in, e, p, n \div 2),
                     p + (n \div 2), n - (n \div 2))

\* while (best_len--!=0) { ... p++; } for n = best_len, and the single
\* insertion of the else branch for n = 1; p itself is advanced by the
\* caller.
InsertChained(in, e, n) == InsertRange(in, e, e.p, n)

\* if (best_len>=MIN_MATCH) { ... anchor=p; } else { ... p++ }
TakeChained(in, e) ==
    IF e.best_len >= MIN_MATCH
    THEN SkipMatch(InsertChained(in, Emitted(in, e), e.best_len))
    ELSE [InsertChained(in, e, 1) EXCEPT !.p = e.p + 1]

\* One iteration of while (p<in_len) { ... }.
CompressBody(in, in_len, level, e) ==
    TakeChained(in,
        Lazy(in, in_len, level,
             DropShort(BestMatch(in, in_len, e, MaxChain(level)))))

RECURSIVE CompressLoop(_, _, _, _, _)
\* while (p<in_len) CompressBody, for at most k iterations (see FastLoop).
CompressLoop(in, in_len, level, e, k) ==
    IF k = 0 \/ e.p >= in_len THEN e
    ELSE IF k = 1 THEN CompressBody(in, in_len, level, e)
    ELSE CompressLoop(in, in_len, level,
                      CompressLoop(in, in_len, level, e, k \div 2), k - (k \div 2))

\* int Compress(U8* in, int in_len, U8* out, int level) on an instance
\* whose tables hold HT and PV; level outside 1..9 returns -1 at once.
Compress(in, in_len, out, level, HT, PV) ==
    IF level < 1 \/ level > 9
    THEN [w |-> [mem |-> out, p |-> ERR], HT |-> HT, PV |-> PV, ms |-> <<>>]
    ELSE Finish(in, CompressLoop(in, in_len, level,
                                 Start(out, ResetHashTable(HT), PV), in_len))

-----------------------------------------------------------------------------
(* Decompress *)

RECURSIVE CopyBytes(_, _, _, _)
\* n times *op++=*cp++; within the output memory, in this order (split in
\* halves; nothing is stored past the modelled memory).
CopyBytes(m, d, s, n) ==
    IF n = 0 \/ d >= Len(m) THEN m
    ELSE IF n = 1 THEN Store8(m, d, Load8(m, s))
    ELSE CopyBytes(CopyBytes(m, d, s, n \div 2),
                   d + (n \div 2), s + (n \div 2), n - (n \div 2))

\* The copy of a back-reference, lines 389-402.
MatchCopy(out, op, dist, len) ==
    IF dist >= 8 THEN WildCopySelf(out, op, op - dist, len)
    ELSE CopyBytes(out, op, op - dist, len)

\* if ((op-out)<dist) return -1;
RangeCheck(op, dist) == op < dist

\* What return (ip==ip_end)?op-out:-1; yields.
Return(d, in_len) ==
    [ret |-> IF d.ip = in_len THEN d.op ELSE ERR,
     out |-> d.out, op |-> d.op, ip |-> d.ip, hi |-> d.hi, copies |-> d.copies]

Fail(d) ==
    [ret |-> ERR, out |-> d.out, op |-> d.op, ip |-> d.ip, hi |-> d.hi,
     copies |-> d.copies]

RECURSIVE DecompressLoop(_, _, _, _)

\* The match phase of one iteration, lines 377-402, for the token read and
\* the loop state d after the literal phase.  d.hi is the highest offset
\* at which a token, varint or distance byte has been read; d.copies lists
\* the back-reference copies performed.
MatchPhase(in, in_len, out_len, token, d) ==
    LET code == (token % 16) + MIN_MATCH
        ext == IF code = 15 + MIN_MATCH THEN DecodeMod(in, d.ip)
               ELSE [x |-> 0, p |-> d.ip]
        len == code + ext.x
        hi1 == Max(d.hi, ext.p - 1)
        dist == ((token \div 16) % 2) * 65536 + UnalignedLoad16(in, ext.p)
        ip2 == ext.p + 2
    IN  IF (out_len - d.op) < len
        THEN Fail([d EXCEPT !.ip = ext.p, !.hi = hi1])
        ELSE IF RangeCheck(d.op, dist)
        THEN Fail([d EXCEPT !.ip = ip2, !.hi = Max(hi1, ext.p + 1)])
        ELSE DecompressLoop(in, in_len, out_len,
                [ip |-> ip2, op |-> d.op + len, hi |-> Max(hi1, ext.p + 1),
                 out |-> MatchCopy(d.out, d.op, dist, len),
                 copies |-> Append(d.copies,
                     [dist |-> dist, produced |-> d.op, len |-> len])])

\* while (ip<ip_end) { ... } and the return.
DecompressLoop(in, in_len, out_len, d) ==
    IF d.ip < in_len
    THEN LET token == Load8(in, d.ip)
             d1 == [d EXCEPT !.ip = d.ip + 1, !.hi = Max(d.hi, d.ip)]
         IN  IF token >= 32
             THEN LET ext == IF token \div 32 = 7 THEN DecodeMod(in, d1.ip)
                             ELSE [x |-> 0, p |-> d1.ip]
                      run == (token \div 32) + ext.x
                      d2 == [d1 EXCEPT !.ip = ext.p, !.hi = Max(d1.hi, ext.p - 1)]
                  IN  IF (out_len - d2.op) < run \/ (in_len - d2.ip) < run
                      THEN Fail(d2)
                      ELSE LET d3 == [d2 EXCEPT
                                        !.out = WildCopy(d2.out, d2.op, in, d2.ip, run),
                                        !.op = d2.op + run, !.ip = d2.ip + run]
                           IN  IF d3.ip >= in_len THEN Return(d3, in_len)
                               ELSE MatchPhase(in, in_len, out_len, token, d3)
             ELSE MatchPhase(in, in_len, out_len, token, d1)
    ELSE Return(d, in_len)

\* int Decompress(U8* in, int in_len, U8* out, int out_len)
Decompress(in, in_len, out, out_len) ==
    DecompressLoop(in, in_len, out_len,
        [ip |-> 0, op |-> 0, hi |-> -1, out |-> out, copies |-> <<>>])

-----------------------------------------------------------------------------
(* Bounds and the inputs the callers supply *)

\* Every byte string over Alphabet up to this length is an input.
MaxLen == 7

\* Every byte string over RawBytes up to this length is a stream handed to
\* Decompress directly.
MaxRaw == 4

\* EncodeMod is applied to 0..VarintSmall and to the values around each
\* change of its output length.
VarintSmall == 40

\* In SpecReuse both encode calls made on one instance take every byte
\* string over Alphabet of this length.
ReuseLen == 5

Alphabet == {65, 66}

\* What the memory after a buffer's logical end, or memory never written,
\* may hold.
JunkBytes == {65, 66}

Orders == {"lhs_first", "rhs_first"}

\* What the tables of a newly constructed instance may hold: the class has
\* no constructor.
JunkEntries == {NIL, 1}

RECURSIVE Strings(_)
Strings(n) ==
    IF n = 0 THEN {<<>>}
    ELSE LET S == Strings(n - 1)
         IN  S \cup {Append(s, b) : s \in {t \in S : Len(t) = n - 1}, b \in Alphabet}

\* n pairwise distinct bytes: a run with no match in it.
Filler(n) == <<>> \o [k \in 1..n |-> k]

Word == <<65, 66, 67, 68>>

\* A word, a separator, the word again and one more byte.
Repeats ==
    {w \o <<c>> \o w \o <<d>> :
        w \in {s \in Strings(4) : Len(s) = 4}, c \in Alphabet, d \in Alphabet}

\* A word repeated at distances WINDOW_SIZE-2 .. WINDOW_SIZE+2.
WindowEdge ==
    {Word \o Filler(g) \o Word : g \in (WINDOW_SIZE - 6)..(WINDOW_SIZE - 2)}

\* A minimum-length match after a literal run of 134 and of 135 bytes.
LongRuns == {Filler(f) \o Word \o Word \o <<90>> : f \in {130, 131}}

\* One byte repeated: one literal and one match of 15, 23 and 151 bytes,
\* below and above the 15+MIN_MATCH a token holds without an extension.
Runs == {Filled(n, 65) : n \in {16, 24, 152}}

Inputs == Strings(MaxLen) \cup Repeats \cup WindowEdge \cup LongRuns \cup Runs

ReuseInputs ==
    {s \in Strings(ReuseLen) : Len(s) = ReuseLen}
        \cup {Filled(n, 65) : n \in {8, 24}}

\* The levels of the calls of SpecReuse: the shortest chain walk, the first
\* lazy level and the longest chain walk.
ReuseLevels == {1, 5, 9}

\* A buffer of the logical bytes X and EXCESS guard bytes g.
Buffer(X, g) == X \o Filled(EXCESS, g)

\* The junk byte of a buffer built by Buffer.
Junk(m) == m[Len(m)]

\* The output memory a caller provides for an input of n bytes.
OutCapacity(n) == n + (n \div 8) + EXCESS

RawBytes == {0, 1, 15, 32, 224, 128}

RECURSIVE RawStrings(_)
RawStrings(n) ==
    IF n = 0 THEN {<<>>}
    ELSE LET S == RawStrings(n - 1)
         IN  S \cup {Append(s, b) : s \in {t \in S : Len(t) = n - 1}, b \in RawBytes}

RawOutLens == {0, 1, 4, 5, 8, 19}

\* What the memory after a raw stream may hold.
RawGuards == {0, 255}

\* The guard byte of the buffers of SpecReuse.
ReuseGuards == {65}

\* The least values EncodeMod writes in 2, 3, 4 and 5 bytes.
VarintEdges ==
    {VARINT_BASE,
     VARINT_BASE + VARINT_BASE ^ 2,
     VARINT_BASE + VARINT_BASE ^ 2 + VARINT_BASE ^ 3,
     VARINT_BASE + VARINT_BASE ^ 2 + VARINT_BASE ^ 3 + VARINT_BASE ^ 4}

VarintValues ==
    (0..VarintSmall) \cup {e + d : e \in VarintEdges, d \in -2..2}

VarintBytes == {0, VARINT_BASE - 1, VARINT_BASE, VARINT_BASE + 1, 255}

NoDec == [kind |-> "none"]

NoVal == [x |-> 0, p |-> 0]

-----------------------------------------------------------------------------
(* The state machine: one action per call *)

\* A newly constructed instance: tables of whatever the memory held.
NewInstance ==
    /\ \E j \in JunkEntries :
          /\ HashTable = Filled(HASH_SIZE, j)
          /\ Prev = Filled(WINDOW_SIZE, j)
    /\ pc = "new"
    /\ inbuf = <<>> /\ inlen = 0 /\ lvl = 0 /\ build = "lhs_first"
    /\ outbuf = <<>> /\ ret = 0 /\ matches = <<>>
    /\ dec = NoDec /\ calls = 0 /\ vx = 0 /\ vdec = NoVal

\* z.CompressFast(in, Len(X), out) for an input X drawn from Xs, in a buffer
\* whose guard bytes are drawn from Gs.
CallCompressFast(Xs, Gs) ==
    \E X \in Xs, g \in Gs, order \in Orders :
        \E r \in {CompressFast(Buffer(X, g), Len(X),
                               Memory(OutCapacity(Len(X)), g),
                               HashTable, Prev, order)} :
            /\ inbuf' = Buffer(X, g) /\ inlen' = Len(X)
            /\ lvl' = 0 /\ build' = order
            /\ outbuf' = r.w.mem /\ ret' = r.w.p /\ matches' = r.ms
            /\ HashTable' = r.HT /\ Prev' = r.PV
            /\ pc' = "enc" /\ calls' = calls + 1
            /\ UNCHANGED <<dec, vx, vdec>>

\* z.Compress(in, Len(X), out, level)
CallCompress(Xs, Ls, Gs) ==
    \E X \in Xs, g \in Gs, level \in Ls :
        \E r \in {Compress(Buffer(X, g), Len(X),
                           Memory(OutCapacity(Len(X)), g), level,
                           HashTable, Prev)} :
            /\ inbuf' = Buffer(X, g) /\ inlen' = Len(X) /\ lvl' = level
            /\ outbuf' = r.w.mem /\ ret' = r.w.p /\ matches' = r.ms
            /\ HashTable' = r.HT /\ Prev' = r.PV
            /\ pc' = "enc" /\ calls' = calls + 1
            /\ UNCHANGED <<build, dec, vx, vdec>>

\* What a Decompress call leaves in dec: its arguments and its result.
Decoded(kind, in, in_len, out, out_len) ==
    [kind |-> kind, in |-> in, in_len |-> in_len, out_len |-> out_len,
     r |-> Decompress(in, in_len, out, out_len)]

\* z.Decompress(out, ret, back, inlen) on the stream the encoder produced.
CallDecompress ==
    /\ pc = "enc" /\ ret # ERR
    /\ dec' = Decoded("full", outbuf, ret,
                      Memory(inlen + EXCESS, Junk(inbuf)), inlen)
    /\ pc' = "dec"
    /\ UNCHANGED <<HashTable, Prev, inbuf, inlen, lvl, build, outbuf, ret,
                   matches, calls, vx, vdec>>

\* The memory of a stream cut to n bytes: the cut bytes are still there,
\* or the memory after the cut holds something else.
CutMemory(m, n, wiped, f) ==
    IF wiped THEN SubSeq(m, 1, n) \o Filled(Len(m) - n, f) ELSE m

\* z.Decompress on the encoder's stream cut short by k bytes.
CallDecompressTruncated ==
    /\ pc = "enc" /\ ret # ERR
    /\ \E k \in 1..4, wiped \in BOOLEAN :
          /\ k <= ret
          /\ dec' = Decoded("trunc",
                            CutMemory(outbuf, ret - k, wiped, Junk(inbuf)), ret - k,
                            Memory(inlen + EXCESS, Junk(inbuf)), inlen)
    /\ pc' = "dec"
    /\ UNCHANGED <<HashTable, Prev, inbuf, inlen, lvl, build, outbuf, ret,
                   matches, calls, vx, vdec>>

Init == NewInstance

Next ==
    \/ pc = "new" /\ CallCompressFast(Inputs, JunkBytes)
    \/ pc = "new" /\ CallCompress(Inputs, 1..9, JunkBytes)
    \/ CallDecompress
    \/ CallDecompressTruncated

Spec == Init /\ [][Next]_vars

-----------------------------------------------------------------------------
(* Decompress on streams no encoder produced *)

\* z.Decompress(S, Len(S), out, n) for a byte string S and a declared
\* output length n; the memory after S holds g.
CallDecompressRaw ==
    /\ pc = "new"
    /\ \E S \in RawStrings(MaxRaw), n \in RawOutLens, g \in RawGuards :
          dec' = Decoded("raw", Buffer(S, g), Len(S),
                         Memory(n + EXCESS, 0), n)
    /\ pc' = "dec"
    /\ UNCHANGED <<HashTable, Prev, inbuf, inlen, lvl, build, outbuf, ret,
                   matches, calls, vx, vdec>>

NextDecode == CallDecompressRaw

SpecDecode == Init /\ [][NextDecode]_vars

-----------------------------------------------------------------------------
(* A second encode call on a used instance *)

NextReuse ==
    \/ pc = "new" /\ CallCompressFast(ReuseInputs, ReuseGuards)
    \/ pc = "new" /\ CallCompress(ReuseInputs, ReuseLevels, ReuseGuards)
    \/ pc = "enc" /\ calls = 1 /\ CallCompressFast(ReuseInputs, ReuseGuards)
    \/ pc = "enc" /\ calls = 1 /\ CallCompress(ReuseInputs, ReuseLevels, ReuseGuards)

SpecReuse == Init /\ [][NextReuse]_vars

-----------------------------------------------------------------------------
(* The varint codec on its own *)

\* EncodeMod(p, x) with p at the start of an 8-byte memory.
CallEncodeMod ==
    /\ pc = "new"
    /\ \E x \in VarintValues, g \in JunkBytes :
          \E e \in {EncodeMod(Memory(8, g), 0, x)} :
              /\ outbuf' = e.mem /\ ret' = e.p /\ vx' = x
    /\ pc' = "varint"
    /\ UNCHANGED <<HashTable, Prev, inbuf, inlen, lvl, build, matches, dec,
                   calls, vdec>>

\* DecodeMod(p) with p at the start of what EncodeMod wrote.
CallDecodeMod ==
    /\ pc = "varint"
    /\ vdec' = DecodeMod(outbuf, 0)
    /\ pc' = "unvarint"
    /\ UNCHANGED <<HashTable, Prev, inbuf, inlen, lvl, build, outbuf, ret,
                   matches, dec, calls, vx>>

\* DecodeMod(p) with p at the start of any four bytes.
CallDecodeModRaw ==
    /\ pc = "new"
    /\ \E b \in [1..4 -> VarintBytes], g \in JunkBytes :
          /\ outbuf' = (<<>> \o b) \o Filled(4, g)
          /\ vdec' = DecodeMod((<<>> \o b) \o Filled(4, g), 0)
    /\ pc' = "rawvarint"
    /\ UNCHANGED <<HashTable, Prev, inbuf, inlen, lvl, build, ret, matches,
                   dec, calls, vx>>

NextVarint == CallEncodeMod \/ CallDecodeMod \/ CallDecodeModRaw

SpecVarint == Init /\ [][NextVarint]_vars

-----------------------------------------------------------------------------
(* Properties of the encoders and of the decoder on encoded streams (Spec) *)

\* C1: decoding the stream an encoder produced, with in_len the length the
\* encoder returned and out_len the input's length, returns the input's
\* length and leaves exactly the input's bytes in the output.
RoundTrip ==
    (pc = "dec" /\ dec.kind = "full") =>
        /\ dec.r.ret = inlen
        /\ SubSeq(dec.r.out, 1, inlen) = SubSeq(inbuf, 1, inlen)

\* C3: decoding an encoder's stream cut short by 1 to 4 bytes returns the
\* error value.
TruncationDetected ==
    (pc = "dec" /\ dec.kind = "trunc") => dec.r.ret = ERR

\* C6: every back-reference an encoder emits has a distance of at least 1,
\* below WINDOW_SIZE and at most the position the match starts at, and a
\* length of at least MIN_MATCH and at most the bytes left in the input.
DistanceBound ==
    \A i \in 1..Len(matches) :
        /\ 1 <= matches[i].dist
        /\ matches[i].dist < WINDOW_SIZE
        /\ matches[i].dist <= matches[i].pos
        /\ matches[i].len >= MIN_MATCH
        /\ matches[i].len <= inlen - matches[i].pos

\* A chain search (levels 1..9) has matched a repeat at the largest distance
\* the window admits.
MatchedAtWindowEdge ==
    /\ pc = "enc" /\ lvl >= 1
    /\ \E i \in 1..Len(matches) : matches[i].dist = WINDOW_SIZE - 1

\* C10: Compress on a buffer with the same in_len logical bytes and any
\* other guard bytes returns the same length and the same output bytes.
GuardIndependent ==
    (pc = "enc" /\ lvl >= 1) =>
        \A g \in JunkBytes :
            \A r \in {Compress(Buffer(SubSeq(inbuf, 1, inlen), g), inlen,
                               Memory(Len(outbuf), g), lvl,
                               Filled(HASH_SIZE, NIL), Filled(WINDOW_SIZE, NIL))} :
                /\ r.w.p = ret
                /\ SubSeq(r.w.mem, 1, ret) = SubSeq(outbuf, 1, ret)

-----------------------------------------------------------------------------
(* Properties of the decoder on arbitrary streams (SpecDecode) *)

\* C2: a Decompress call that does not return the error value returns
\* out_len.
WrittenIsOutLen ==
    (pc = "dec" /\ dec.r.ret # ERR) => dec.r.ret = dec.out_len

\* C4: Decompress reads token bytes, varint bytes and distance bytes only at
\* offsets below in_len.
ReadsBelowInLen ==
    pc = "dec" => dec.r.hi < dec.in_len

\* C5: every match copy Decompress performs has a distance of at least 1,
\* below the window size (the 17-bit distance field) and at most the number
\* of output bytes produced so far.
CopiesInRange ==
    pc = "dec" =>
        \A i \in 1..Len(dec.r.copies) :
            /\ 1 <= dec.r.copies[i].dist
            /\ dec.r.copies[i].dist < 2 ^ DIST_FIELD_BITS
            /\ dec.r.copies[i].dist <= dec.r.copies[i].produced

-----------------------------------------------------------------------------
(* The second call on a used instance (SpecReuse) *)

\* What the last encode call returns on an instance whose tables hold j
\* everywhere, as a newly constructed one's may.
OnNewInstance(j) ==
    IF lvl = 0
    THEN CompressFast(inbuf, inlen, Memory(Len(outbuf), Junk(inbuf)),
                      Filled(HASH_SIZE, j), Filled(WINDOW_SIZE, j), build)
    ELSE Compress(inbuf, inlen, Memory(Len(outbuf), Junk(inbuf)), lvl,
                  Filled(HASH_SIZE, j), Filled(WINDOW_SIZE, j))

\* C7: an encode call on an instance an earlier call has used returns the
\* length and the output bytes that the same call returns on a newly
\* constructed instance, and emits the same back-references.
Stateless ==
    (pc = "enc" /\ calls = 2) =>
        \A j \in JunkEntries :
            \A r \in {OnNewInstance(j)} :
                /\ r.w.p = ret
                /\ r.w.mem = outbuf
                /\ r.ms = matches
                /\ r.HT = HashTable

\* A second call, a chain search that emitted a back-reference, on an
\* instance whose Prev still holds chain links of the first call in slots
\* the second call did not write.
ReusedWithStaleLinks ==
    /\ pc = "enc" /\ calls = 2 /\ lvl >= 1
    /\ matches # <<>>
    /\ \E k \in (inlen + 1)..WINDOW_SIZE : Prev[k] > 1

-----------------------------------------------------------------------------
(* Properties of the varint codec (SpecVarint) *)

RECURSIVE LayoutValue(_, _, _)
\* The value of the first n bytes of m when byte k contributes
\* (byte mod modulus) * VARINT_BASE^k.
LayoutValue(m, n, modulus) ==
    IF n = 0 THEN 0
    ELSE LayoutValue(m, n - 1, modulus)
            + (m[n] % modulus) * (VARINT_BASE ^ (n - 1))

\* C8: DecodeMod on the bytes EncodeMod wrote for x returns x and advances
\* the cursor by the number of bytes written, which is at most 4.
VarintRoundTrip ==
    pc = "unvarint" => (vdec.x = vx /\ vdec.p = ret /\ ret <= 4)

\* C9, as stated: the decoded value is made of the payload bits of the
\* consumed bytes only, byte k contributing (byte mod 128) * 2^(7k), and
\* EncodeMod writes x in that layout, continuation bit set on every byte
\* but the last.
PayloadLayout ==
    /\ pc \in {"unvarint", "rawvarint"} =>
          vdec.x = LayoutValue(outbuf, vdec.p, VARINT_BASE)
    /\ pc = "varint" =>
          /\ \A k \in 1..(ret - 1) : outbuf[k] >= VARINT_BASE
          /\ outbuf[ret] < VARINT_BASE
          /\ LayoutValue(outbuf, ret, VARINT_BASE) = vx

\* C9, amended: the decoded value is the sum of the whole consumed bytes,
\* continuation bit included, byte k weighing 2^(7k); at most four bytes are
\* consumed, every one but the last with its continuation bit set; and
\* EncodeMod writes x so that this sum over the bytes written is x, with the
\* continuation bit (and no higher bit) set on every byte but the last.
WholeByteLayout ==
    /\ pc \in {"unvarint", "rawvarint"} =>
          /\ vdec.x = LayoutValue(outbuf, vdec.p, 256)
          /\ vdec.p \in 1..4
          /\ \A k \in 1..(vdec.p - 1) : outbuf[k] >= VARINT_BASE
          /\ outbuf[vdec.p] < VARINT_BASE \/ vdec.p = 4
    /\ pc = "varint" =>
          /\ \A k \in 1..(ret - 1) :
                outbuf[k] >= VARINT_BASE /\ outbuf[k] < 2 * VARINT_BASE
          /\ outbuf[ret] < VARINT_BASE
          /\ LayoutValue(outbuf, ret, 256) = vx

\* DecodeMod has read back a value that EncodeMod wrote in four bytes.
FourBytesDecoded ==
    pc = "unvarint" /\ ret = 4 /\ vdec.p = 4 /\ vdec.x = vx

=============================================================================
